---- MODULE Spec2Model ----
(***************************************************************************)
(* Model of medvir/NanoporeMet: the coverage pipeline (coverage.py) and    *)
(* the classification + summary pipeline (nanoporemet.py).                 *)
(*                                                                         *)
(* File names are sequences of tokens, the last token being the extension  *)
(* (<<"ref1", ".fasta">> is ref1.fasta, <<"._", "ref1", ".fasta">> is      *)
(* ._ref1.fasta).  File contents are sequences of bytes (small numbers).   *)
(* A real number is kept exactly, as the pair <<numerator, denominator>>.  *)
(***************************************************************************)
EXTENDS Integers, Sequences, FiniteSets, TLC

VARIABLES
    \* ---- coverage.py: the fastq_pass directory
    dirFiles,       \* files below the working directory: name -> file
    concatenated,   \* concatenated.fastq
    lastWrites,     \* file writes made by the latest concatenate_fastq call
    concatCalls,    \* number of concatenate_fastq calls so far
    firstConcat,    \* concatenated.fastq as the first call left it
    \* ---- coverage.py: the script
    covPc,          \* position in the __main__ block
    refDir,         \* names in the reference directory
    referenceFile,  \* result of find_reference_fasta
    covError,       \* exception that ended the script
    toolExit,       \* exit status of each external tool, "notrun" before it ran
    stagesRun,      \* downstream stages started: minimap2, sort, depth, plot
    coverageFile,   \* <name>.coverage
    metrics,        \* horizontal and vertical coverage computed by the plot
    chartWritten,   \* <name>.pdf was saved
    \* ---- nanoporemet.py: the analysis directory
    summaryFiles,   \* names matching sequencing_summary_*.txt
    summaryPdf,     \* sequencing_summary.pdf, holding the table it was made from
    pdfResult,      \* what the latest generate_sequencing_summary_pdf call did
    entries,        \* entries of fastq_pass: name -> what is there
    outputFile,     \* the combined classification table: its name and rows
    \* ---- nanoporemet.py: main()
    metPc,          \* position in main()
    metRuns,        \* runs of main() started
    answer,         \* the answer to the bacterial-reads prompt
    todo,           \* entries of os.listdir(fastq_pass) not yet visited
    kreport_dfs,    \* the per-sample tables read so far
    metError        \* exception that ended main(), and the entry it came from

covVars == <<dirFiles, concatenated, lastWrites, concatCalls, firstConcat,
             covPc, refDir, referenceFile, covError, toolExit, stagesRun,
             coverageFile, metrics, chartWritten>>

metVars == <<summaryFiles, summaryPdf, pdfResult, entries, outputFile,
             metPc, metRuns, answer, todo, kreport_dfs, metError>>

vars == <<covVars, metVars>>

\* A file, or a value that may be missing, is <<>> when absent and <<v>> when
\* it is there and holds v
NoFile == <<>>
NoValue == <<>>
File(content) == <<content>>
Content(file) == file[1]
NoError == "NoError"

\* ------------------------------------------------------------------ bounds
MaxCalls == 3
MaxPos == 3
MaxDepth == 2

\* -------------------------------------------------------------- file names
ReadNames == { <<"r1", ".fastq.gz">>, <<"sub", "r2", ".fastq.gz">>, <<"r3", ".fastq">> }
FragContents == { <<1>>, <<2>> }
RefNames == { <<"ref1", ".fasta">>, <<"ref2", ".fasta">>, <<"._", "ref1", ".fasta">>,
              <<"notes", ".txt">> }

\* str.endswith / str.startswith on a tokenised name
endswith(name, tok) == Len(name) > 0 /\ name[Len(name)] = tok
startswith(name, tok) == Len(name) > 0 /\ name[1] = tok

\* All orders in which a finite set can be enumerated
Orders(S) == { o \in [1..Cardinality(S) -> S] : \A x \in S : \E i \in DOMAIN o : o[i] = x }

RECURSIVE Flatten(_)
Flatten(ss) == IF ss = <<>> THEN <<>> ELSE Head(ss) \o Flatten(Tail(ss))

\* ------------------------------------------------------ concatenate_fastq
\* glob.glob('**/*.fastq.gz', recursive=True)
glob_fastq_gz(files) == { n \in DOMAIN files : files[n] # NoFile /\ endswith(n, ".fastq.gz") }

\* A variant without the os.path.exists check
concatenate_fastq_nocheck ==
    \E order \in Orders(glob_fastq_gz(dirFiles)) :
        /\ concatenated' = File(Flatten([i \in DOMAIN order |-> Content(dirFiles[order[i]])]))
        /\ lastWrites' = 1 + Len(order)

concatenate_fastq ==
    IF concatenated # NoFile
    THEN /\ concatenated' = concatenated
         /\ lastWrites' = 0
    ELSE \E order \in Orders(glob_fastq_gz(dirFiles)) :
            /\ concatenated' = File(Flatten([i \in DOMAIN order |-> Content(dirFiles[order[i]])]))
            /\ lastWrites' = 1 + Len(order)

NoteCall ==
    /\ concatCalls' = concatCalls + 1
    /\ firstConcat' = IF concatCalls = 0 THEN concatenated' ELSE firstConcat

scriptVars == <<covPc, refDir, referenceFile, covError, toolExit, stagesRun,
                coverageFile, metrics, chartWritten>>

\* One more call of concatenate_fastq on the directory
CallConcatenate ==
    /\ concatCalls < MaxCalls
    /\ concatenate_fastq
    /\ NoteCall
    /\ UNCHANGED <<dirFiles, scriptVars, metVars>>

\* The sequencer drops a new read file, or rewrites one
WriteReadFile ==
    /\ \E n \in ReadNames, d \in FragContents :
          /\ dirFiles[n] # File(d)
          /\ dirFiles' = [dirFiles EXCEPT ![n] = File(d)]
    /\ UNCHANGED <<concatenated, lastWrites, concatCalls, firstConcat, scriptVars, metVars>>

\* ------------------------------------------------ nanoporemet.py, at rest
EntryNames == {"barcode01", "01"}
NoEntry == [kind |-> "absent", frags |-> <<>>, other |-> FALSE,
            report |-> NoFile, concatenated |-> NoFile]
EmptyDir == [NoEntry EXCEPT !.kind = "dir"]
PlainFile == [NoEntry EXCEPT !.kind = "file"]

MetIdle ==
    /\ summaryFiles = {}
    /\ summaryPdf = NoFile
    /\ pdfResult = "none"
    /\ entries = [e \in EntryNames |-> NoEntry]
    /\ outputFile = NoFile
    /\ metPc = "idle"
    /\ metRuns = 0
    /\ answer = "n"
    /\ todo = <<>>
    /\ kreport_dfs = <<>>
    /\ metError = <<NoError, "">>

ScriptIdle ==
    /\ covPc = "idle"
    /\ refDir = {}
    /\ referenceFile = NoValue
    /\ covError = NoError
    /\ toolExit = [t \in {"minimap2", "sort", "depth"} |-> "notrun"]
    /\ stagesRun = {}
    /\ coverageFile = NoFile
    /\ metrics = NoValue
    /\ chartWritten = FALSE

InitConcat ==
    /\ dirFiles = [n \in ReadNames |-> NoFile]
    /\ concatenated \in {NoFile, File(<<2>>)}
    /\ lastWrites = 0
    /\ concatCalls = 0
    /\ firstConcat = NoFile
    /\ ScriptIdle
    /\ MetIdle

NextConcat == CallConcatenate \/ WriteReadFile

SpecConcat == InitConcat /\ [][NextConcat]_vars

\* ---------------------------------------------------- find_reference_fasta
reference_files(directory) ==
    { file \in directory : endswith(file, ".fasta") /\ ~startswith(file, "._") }

\* A variant without the check for several reference files
find_reference_fasta_first(directory) ==
    IF reference_files(directory) = {}
    THEN [error |-> "FileNotFoundError", file |-> NoValue]
    ELSE [error |-> NoError,
          file |-> File(CHOOSE f \in reference_files(directory) : TRUE)]

find_reference_fasta(directory) ==
    IF reference_files(directory) = {}
    THEN [error |-> "FileNotFoundError", file |-> NoValue]
    ELSE IF Cardinality(reference_files(directory)) > 1
    THEN [error |-> "ValueError", file |-> NoValue]
    ELSE [error |-> NoError,
          file |-> File(CHOOSE f \in reference_files(directory) : TRUE)]

\* ------------------------------------------------------------ plot_coverage
\* The depth tool prints one line per position: reference, position, depth
DepthTables == UNION { [1..n -> 0..MaxDepth] : n \in 1..MaxPos }
DepthLines(depths) == [i \in DOMAIN depths |-> <<"ref", i, depths[i]>>]

\* A variant that counts the positions of depth 0 too:
\* sum(1 for val in data['y'] if val >= 0)
RECURSIVE count_nonnegative(_)
count_nonnegative(y) ==
    IF y = <<>> THEN 0
    ELSE (IF Head(y) >= 0 THEN 1 ELSE 0) + count_nonnegative(Tail(y))

\* sum(1 for val in data['y'] if val > 0)
RECURSIVE count_positive(_)
count_positive(y) ==
    IF y = <<>> THEN 0
    ELSE (IF Head(y) > 0 THEN 1 ELSE 0) + count_positive(Tail(y))

\* sum(data['y'])
RECURSIVE sum(_)
sum(y) == IF y = <<>> THEN 0 ELSE Head(y) + sum(Tail(y))

\* data['y'] of the parsed table: the third column of every line
data_y(lines) == [i \in DOMAIN lines |-> lines[i][3]]

\* The outcome of plot_coverage on the lines of the coverage file
plot_coverage(lines) ==
    IF Len(data_y(lines)) = 0
    THEN [error |-> "ZeroDivisionError", metrics |-> NoValue, chart |-> FALSE]
    ELSE [error |-> NoError,
          metrics |-> File([horizontal |-> <<count_positive(data_y(lines)), Len(data_y(lines))>>,
                            vertical |-> <<sum(data_y(lines)), Len(data_y(lines))>>]),
          chart |-> TRUE]

\* ------------------------------------------------- coverage.py, __main__
ExitCodes == {"0", "nonzero"}

Main_concatenate ==
    /\ covPc = "start"
    /\ concatenate_fastq
    /\ NoteCall
    /\ covPc' = "concatenated"
    /\ UNCHANGED <<dirFiles, refDir, referenceFile, covError, toolExit, stagesRun,
                   coverageFile, metrics, chartWritten, metVars>>

\* input(), find_reference_fasta, and create_output_directory, which changes
\* nothing the later stages read
Main_find_reference ==
    /\ covPc = "concatenated"
    /\ LET r == find_reference_fasta(refDir) IN
          /\ referenceFile' = r.file
          /\ covError' = r.error
          /\ covPc' = IF r.error = NoError THEN "reference" ELSE "failed"
    /\ UNCHANGED <<dirFiles, concatenated, lastWrites, concatCalls, firstConcat,
                   refDir, toolExit, stagesRun, coverageFile, metrics, chartWritten, metVars>>

run_minimap2 ==
    /\ covPc = "reference"
    /\ \E code \in ExitCodes : toolExit' = [toolExit EXCEPT !["minimap2"] = code]
    /\ stagesRun' = stagesRun \cup {"minimap2"}
    /\ covPc' = "aligned"
    /\ UNCHANGED <<dirFiles, concatenated, lastWrites, concatCalls, firstConcat,
                   refDir, referenceFile, covError, coverageFile, metrics, chartWritten, metVars>>

run_samtools_sort ==
    /\ covPc = "aligned"
    /\ \E code \in ExitCodes : toolExit' = [toolExit EXCEPT !["sort"] = code]
    /\ stagesRun' = stagesRun \cup {"sort"}
    /\ covPc' = "sorted"
    /\ UNCHANGED <<dirFiles, concatenated, lastWrites, concatCalls, firstConcat,
                   refDir, referenceFile, covError, coverageFile, metrics, chartWritten, metVars>>

\* The coverage file is opened for writing before the tool starts: a tool that
\* fails leaves it empty
run_samtools_depth ==
    /\ covPc = "sorted"
    /\ \/ /\ toolExit' = [toolExit EXCEPT !["depth"] = "0"]
          /\ \E depths \in DepthTables : coverageFile' = File(DepthLines(depths))
       \/ /\ toolExit' = [toolExit EXCEPT !["depth"] = "nonzero"]
          /\ coverageFile' = File(<<>>)
    /\ stagesRun' = stagesRun \cup {"depth"}
    /\ covPc' = "depth"
    /\ UNCHANGED <<dirFiles, concatenated, lastWrites, concatCalls, firstConcat,
                   refDir, referenceFile, covError, metrics, chartWritten, metVars>>

Main_plot_coverage ==
    /\ covPc = "depth"
    /\ LET r == plot_coverage(Content(coverageFile)) IN
          /\ covError' = r.error
          /\ metrics' = r.metrics
          /\ chartWritten' = r.chart
          /\ covPc' = IF r.error = NoError THEN "done" ELSE "failed"
    /\ stagesRun' = stagesRun \cup {"plot"}
    /\ UNCHANGED <<dirFiles, concatenated, lastWrites, concatCalls, firstConcat,
                   refDir, referenceFile, toolExit, coverageFile, metVars>>

\* The working directory and the reference directory the script is started on
StartDirs ==
    { [n \in ReadNames |-> IF n \in S THEN File(<<1>>) ELSE NoFile] : S \in SUBSET ReadNames }

InitCov ==
    /\ dirFiles \in StartDirs
    /\ concatenated \in {NoFile, File(<<2>>)}
    /\ lastWrites = 0
    /\ concatCalls = 0
    /\ firstConcat = NoFile
    /\ covPc = "start"
    /\ refDir \in SUBSET RefNames
    /\ referenceFile = NoValue
    /\ covError = NoError
    /\ toolExit = [t \in {"minimap2", "sort", "depth"} |-> "notrun"]
    /\ stagesRun = {}
    /\ coverageFile = NoFile
    /\ metrics = NoValue
    /\ chartWritten = FALSE
    /\ MetIdle

NextCov ==
    \/ Main_concatenate
    \/ Main_find_reference
    \/ run_minimap2
    \/ run_samtools_sort
    \/ run_samtools_depth
    \/ Main_plot_coverage

SpecCov == InitCov /\ [][NextCov]_vars

\* ------------------------------------- generate_sequencing_summary_pdf
SummaryNames == {"sequencing_summary_A.txt"}

\* A variant that leaves an empty document behind when the table is missing
generate_sequencing_summary_pdf_placeholder ==
    IF summaryPdf # NoFile
    THEN /\ pdfResult' = "exists"
         /\ summaryPdf' = summaryPdf
    ELSE IF summaryFiles = {}
    THEN /\ pdfResult' = "notready"
         /\ summaryPdf' = File("")
    ELSE /\ pdfResult' = "generated"
         /\ \E file_path \in summaryFiles : summaryPdf' = File(file_path)

\* The table is read from files[0], in glob's order; a table that is there has
\* the three columns the plots use
generate_sequencing_summary_pdf ==
    IF summaryPdf # NoFile
    THEN /\ pdfResult' = "exists"
         /\ summaryPdf' = summaryPdf
    ELSE IF summaryFiles = {}
    THEN /\ pdfResult' = "notready"
         /\ summaryPdf' = summaryPdf
    ELSE /\ pdfResult' = "generated"
         /\ \E file_path \in summaryFiles : summaryPdf' = File(file_path)

\* ------------------------------------------------------------- run_kraken
\* The rows of a classifier report: percentage and taxon name
NativeRows == { <<"50.00", "Homo">>, <<"0.50", "Virus">> }
NativeReports == { <<>>, << <<"50.00", "Homo">> >>,
                   << <<"50.00", "Homo">>, <<"0.50", "Virus">> >> }

\* How the classifier can end: it writes its report when it succeeds and
\* leaves the directory as it was when it fails
KrakenOutcomes ==
    { [exit |-> "0", rows |-> r] : r \in NativeReports }
        \cup { [exit |-> "nonzero", rows |-> <<>>] }

\* f"{title}\t{line}" for every line
tag_lines(title, lines) == [i \in DOMAIN lines |-> <<title>> \o lines[i]]

\* run_kraken up to the classifier: the read files listed are written to
\* concatenated.fastq
run_kraken_concatenate(dir) ==
    [dir EXCEPT !.concatenated = File(Flatten(dir.frags))]

\* subprocess.run(kraken_command, shell=True): the directory when the classifier
\* has ended as `outcome` says
kraken2(dir, outcome) ==
    IF outcome.exit = "0" THEN [dir EXCEPT !.report = File(outcome.rows)] ELSE dir

\* run_kraken after the classifier, on the directory named `title`: the report is
\* tagged and concatenated.fastq removed; the directory afterwards and the
\* exception raised, if any
run_kraken_tag(dir, title) ==
    IF dir.report = NoFile
    THEN [dir |-> dir, error |-> "FileNotFoundError"]
    ELSE [dir |-> [dir EXCEPT !.report = File(tag_lines(title, Content(dir.report))),
                              !.concatenated = NoFile],
          error |-> NoError]

\* ------------------------------------------------- pandas: tables of values
\* A value is <<type, text>>: the type read_csv infers and the text to_csv
\* prints for it
NaN == <<"nan", "">>

csv_type(text) ==
    CASE text = "01" -> "int"
      [] text \in {"50.00", "0.50"} -> "float"
      [] OTHER -> "str"

int_text(text) == CASE text = "01" -> "1" [] OTHER -> text
float_text(text) ==
    CASE text = "50.00" -> "50.0"
      [] text = "0.50" -> "0.5"
      [] text = "01" -> "1.0"
      [] text = "1" -> "1.0"
      [] OTHER -> text

\* The type of a column whose fields have the types in `types`
column_type(types, missing) ==
    IF "str" \in types THEN "str"
    ELSE IF types = {"int"} /\ ~missing THEN "int"
    ELSE "float"

parse_field(text, type) ==
    CASE type = "int" -> <<"int", int_text(text)>>
      [] type = "float" -> <<"float", float_text(text)>>
      [] OTHER -> <<"str", text>>

\* pd.read_csv(path, sep='\t', header=None)
read_csv(file) ==
    IF file = NoFile THEN [error |-> "FileNotFoundError", df |-> <<>>]
    ELSE IF Content(file) = <<>> THEN [error |-> "EmptyDataError", df |-> <<>>]
    ELSE LET rows == Content(file)
             type(j) == column_type({ csv_type(rows[i][j]) : i \in DOMAIN rows }, FALSE)
         IN  [error |-> NoError,
              df |-> [i \in DOMAIN rows |->
                        [j \in DOMAIN rows[i] |-> parse_field(rows[i][j], type(j))]]]

RECURSIVE max_width(_)
max_width(rows) ==
    IF rows = <<>> THEN 0
    ELSE IF Len(Head(rows)) > max_width(Tail(rows)) THEN Len(Head(rows))
    ELSE max_width(Tail(rows))

\* pd.concat(dfs): the rows of all tables, short rows filled with NaN, every
\* column taking the common type of its parts
concat(dfs) ==
    LET rows == Flatten(dfs)
        width == max_width(rows)
        have(j) == { i \in DOMAIN rows : Len(rows[i]) >= j }
        types(j) == { IF rows[i][j][1] = "nan" THEN "float" ELSE rows[i][j][1] : i \in have(j) }
        type(j) == column_type(types(j), have(j) # DOMAIN rows)
        cell(i, j) ==
            IF Len(rows[i]) < j THEN NaN
            ELSE IF type(j) = "float" /\ rows[i][j][1] = "int"
            THEN <<"float", float_text(rows[i][j][2])>>
            ELSE rows[i][j]
    IN  [i \in DOMAIN rows |-> [j \in 1..width |-> cell(i, j)]]

\* df.copy() with column 0 set to "all"
with_label_all(df) == [i \in DOMAIN df |-> [df[i] EXCEPT ![1] = <<"str", "all">>]]

\* df.to_csv(path, sep='\t', header=False, index=False): the file written
to_csv(df, path) ==
    File([name |-> path,
          rows |-> [i \in DOMAIN df |-> [j \in DOMAIN df[i] |-> df[i][j][2]]]])

\* ------------------------------------------------------------------ main()
Answers == {"y", "n"}
output_file_name(analyze_bacterial) ==
    IF analyze_bacterial \in {"yes", "y"} THEN "virus_bacteria.kraken.txt"
    ELSE "virus.kraken.txt"
MaxRuns == 2
MaxSampleFrags == 2

\* any(os.scandir(subdir_path)); the classifier's outputs stay in the directory
scandir_any(e) ==
    e.frags # <<>> \/ e.other \/ e.report # NoFile \/ e.concatenated # NoFile

listdir == { e \in EntryNames : entries[e].kind # "absent" }

NoMetError == <<NoError, "">>

Main_generate_summary ==
    /\ metPc = "start"
    /\ generate_sequencing_summary_pdf
    /\ metPc' = "summary"
    /\ UNCHANGED <<summaryFiles, entries, outputFile, metRuns, answer, todo,
                   kreport_dfs, metError, covVars>>

Main_listdir ==
    /\ metPc = "summary"
    /\ \E order \in Orders(listdir) : todo' = order
    /\ kreport_dfs' = <<>>
    /\ metPc' = "loop"
    /\ UNCHANGED <<summaryFiles, summaryPdf, pdfResult, entries, outputFile,
                   metRuns, answer, metError, covVars>>

\* A sample directory with reads: run_kraken writes concatenated.fastq and
\* waits for the classifier
Main_start_sample ==
    /\ metPc = "loop"
    /\ todo # <<>>
    /\ entries[Head(todo)].kind = "dir"
    /\ scandir_any(entries[Head(todo)])
    /\ entries[Head(todo)].frags # <<>>
    /\ entries' = [entries EXCEPT ![Head(todo)] = run_kraken_concatenate(@)]
    /\ metPc' = "kraken2"
    /\ UNCHANGED <<summaryFiles, summaryPdf, pdfResult, outputFile, metRuns,
                   answer, todo, kreport_dfs, metError, covVars>>

\* The classifier ends
Kraken2_exits ==
    /\ metPc = "kraken2"
    /\ \E outcome \in KrakenOutcomes :
          entries' = [entries EXCEPT ![Head(todo)] = kraken2(@, outcome)]
    /\ metPc' = "tag"
    /\ UNCHANGED <<summaryFiles, summaryPdf, pdfResult, outputFile, metRuns,
                   answer, todo, kreport_dfs, metError, covVars>>

\* run_kraken tags the report and cleans up, main() reads the tagged report
Main_finish_sample ==
    /\ metPc = "tag"
    /\ LET subdir == Head(todo)
           r == run_kraken_tag(entries[subdir], subdir)
           csv == read_csv(r.dir.report)
       IN  /\ entries' = [entries EXCEPT ![subdir] = r.dir]
           /\ IF r.error # NoError
              THEN /\ metError' = <<r.error, subdir>>
                   /\ metPc' = "aborted"
                   /\ UNCHANGED <<todo, kreport_dfs>>
              ELSE IF csv.error # NoError
              THEN /\ metError' = <<csv.error, subdir>>
                   /\ metPc' = "aborted"
                   /\ UNCHANGED <<todo, kreport_dfs>>
              ELSE /\ kreport_dfs' = Append(kreport_dfs, csv.df)
                   /\ todo' = Tail(todo)
                   /\ metPc' = "loop"
                   /\ UNCHANGED metError
    /\ UNCHANGED <<summaryFiles, summaryPdf, pdfResult, outputFile, metRuns,
                   answer, covVars>>

\* A directory that holds entries but no read files: run_kraken only prints,
\* main() reads the report all the same
Main_sample_without_reads ==
    /\ metPc = "loop"
    /\ todo # <<>>
    /\ entries[Head(todo)].kind = "dir"
    /\ scandir_any(entries[Head(todo)])
    /\ entries[Head(todo)].frags = <<>>
    /\ LET subdir == Head(todo)
           csv == read_csv(entries[subdir].report)
       IN  IF csv.error # NoError
           THEN /\ metError' = <<csv.error, subdir>>
                /\ metPc' = "aborted"
                /\ UNCHANGED <<todo, kreport_dfs>>
           ELSE /\ kreport_dfs' = Append(kreport_dfs, csv.df)
                /\ todo' = Tail(todo)
                /\ UNCHANGED <<metError, metPc>>
    /\ UNCHANGED <<summaryFiles, summaryPdf, pdfResult, entries, outputFile,
                   metRuns, answer, covVars>>

Main_skip_entry ==
    /\ metPc = "loop"
    /\ todo # <<>>
    /\ ~(entries[Head(todo)].kind = "dir" /\ scandir_any(entries[Head(todo)]))
    /\ todo' = Tail(todo)
    /\ UNCHANGED <<summaryFiles, summaryPdf, pdfResult, entries, outputFile,
                   metPc, metRuns, answer, kreport_dfs, metError, covVars>>

Main_aggregate ==
    /\ metPc = "loop"
    /\ todo = <<>>
    /\ IF kreport_dfs = <<>>
       THEN /\ metError' = <<"ValueError", "">>
            /\ metPc' = "aborted"
            /\ UNCHANGED outputFile
       ELSE LET combined_kreport == concat(kreport_dfs)
                combined_kreport_all == with_label_all(combined_kreport)
                combined_kreport_final == concat(<<combined_kreport, combined_kreport_all>>)
            IN  /\ outputFile' = to_csv(combined_kreport_final, output_file_name(answer))
                /\ metPc' = "done"
                /\ UNCHANGED metError
    /\ UNCHANGED <<summaryFiles, summaryPdf, pdfResult, entries, metRuns, answer,
                   todo, kreport_dfs, covVars>>

\* The script is started, again after it ended
StartMain ==
    /\ metPc \in {"idle", "done", "aborted"}
    /\ metRuns < MaxRuns
    /\ metRuns' = metRuns + 1
    /\ metPc' = "start"
    /\ metError' = NoMetError
    /\ todo' = <<>>
    /\ kreport_dfs' = <<>>
    /\ UNCHANGED <<summaryFiles, summaryPdf, pdfResult, entries, outputFile,
                   answer, covVars>>

\* The sequencer writes its summary table
SummaryArrives ==
    /\ \E f \in SummaryNames \ summaryFiles : summaryFiles' = summaryFiles \cup {f}
    /\ UNCHANGED <<summaryPdf, pdfResult, entries, outputFile, metPc, metRuns,
                   answer, todo, kreport_dfs, metError, covVars>>

\* Reads land in a sample directory
ReadsLand ==
    /\ \E d \in EntryNames :
          /\ entries[d].kind = "dir"
          /\ Len(entries[d].frags) < MaxSampleFrags
          /\ entries' = [entries EXCEPT ![d].frags = Append(@, <<1>>)]
    /\ UNCHANGED <<summaryFiles, summaryPdf, pdfResult, outputFile, metPc, metRuns,
                   answer, todo, kreport_dfs, metError, covVars>>

\* Something that is no read file lands in a sample directory
OtherFileLands ==
    /\ \E d \in EntryNames :
          /\ entries[d].kind = "dir"
          /\ ~entries[d].other
          /\ entries' = [entries EXCEPT ![d].other = TRUE]
    /\ UNCHANGED <<summaryFiles, summaryPdf, pdfResult, outputFile, metPc, metRuns,
                   answer, todo, kreport_dfs, metError, covVars>>

InitMet ==
    /\ summaryFiles = {}
    /\ summaryPdf = NoFile
    /\ pdfResult = "none"
    /\ entries \in [EntryNames -> {NoEntry, EmptyDir, PlainFile}]
    /\ outputFile = NoFile
    /\ metPc = "idle"
    /\ metRuns = 0
    /\ answer \in Answers
    /\ todo = <<>>
    /\ kreport_dfs = <<>>
    /\ metError = NoMetError
    /\ dirFiles = [n \in ReadNames |-> NoFile]
    /\ concatenated = NoFile
    /\ lastWrites = 0
    /\ concatCalls = 0
    /\ firstConcat = NoFile
    /\ ScriptIdle

NextMet ==
    \/ StartMain
    \/ Main_generate_summary
    \/ Main_listdir
    \/ Main_start_sample
    \/ Kraken2_exits
    \/ Main_finish_sample
    \/ Main_sample_without_reads
    \/ Main_skip_entry
    \/ Main_aggregate
    \/ SummaryArrives
    \/ ReadsLand
    \/ OtherFileLands

SpecMet == InitMet /\ [][NextMet]_vars

\* ----------------------------------------------- properties, coverage.py

\* The positions of a depth table that at least one read covers
CoveredPositions(lines) == { i \in DOMAIN lines : lines[i][3] > 0 }

\* The depths of the first n lines, added up
RECURSIVE TotalDepth(_, _)
TotalDepth(lines, n) == IF n = 0 THEN 0 ELSE TotalDepth(lines, n - 1) + lines[n][3]

\* C2: for a depth table of N >= 1 positions of which k are covered, the plot
\* computes horizontal coverage k/N, which lies in [0,1], and vertical coverage
\* sum(depths)/N; one position of depth 0 gives 0 for both.
C2_CoverageMetrics ==
    ("plot" \in stagesRun /\ Len(Content(coverageFile)) >= 1) =>
        LET lines == Content(coverageFile)
            N == Len(lines)
            k == Cardinality(CoveredPositions(lines))
        IN  /\ covPc = "done"
            /\ metrics # NoValue
            /\ LET h == Content(metrics).horizontal
                   v == Content(metrics).vertical
               IN  /\ h[2] > 0 /\ v[2] > 0
                   /\ h[1] * N = k * h[2]
                   /\ 0 <= h[1] /\ h[1] <= h[2]
                   /\ v[1] * N = TotalDepth(lines, N) * v[2]
                   /\ (N = 1 /\ lines[1][3] = 0 => h[1] = 0 /\ v[1] = 0)

C2_Witness ==
    /\ covPc = "done"
    /\ Cardinality(CoveredPositions(Content(coverageFile))) \in 1..(Len(Content(coverageFile)) - 1)
    /\ Content(metrics).vertical[1] > Len(Content(coverageFile))

\* C3: on a depth table with no rows the reducer ends in the EmptyInput failure
\* of an explicit guard, returns no metric and writes no chart.
C3_EmptyTableIsEmptyInput ==
    ("plot" \in stagesRun /\ coverageFile = File(<<>>)) =>
        /\ covError = "EmptyInput"
        /\ metrics = NoValue
        /\ ~chartWritten

\* C4: from the second call on, concatenate_fastq leaves concatenated.fastq as
\* the first call left it and writes nothing, whatever happened to the read
\* files in between.
C4_ConcatenateIdempotent ==
    concatCalls >= 2 => (concatenated = firstConcat /\ lastWrites = 0)

\* A second call that reused a combined file the read files no longer produce
C4_Witness ==
    /\ concatCalls >= 2
    /\ lastWrites = 0
    /\ \A order \in Orders(glob_fastq_gz(dirFiles)) :
          concatenated # File(Flatten([i \in DOMAIN order |-> Content(dirFiles[order[i]])]))

\* The reference-sequence files of a directory: *.fasta, AppleDouble files aside
ReferenceSequences(directory) ==
    { f \in directory : f[Len(f)] = ".fasta" /\ f[1] # "._" }

\* C7: with exactly one reference-sequence file the lookup returns it; with none
\* it fails with FileNotFoundError (NotFound), with several with ValueError
\* (AmbiguousInput), and after a failure no downstream stage runs.
C7_ReferenceLookup ==
    covPc \notin {"idle", "start", "concatenated"} =>
        LET refs == ReferenceSequences(refDir) IN
        /\ Cardinality(refs) = 1 =>
              /\ referenceFile # NoValue
              /\ Content(referenceFile) \in refs
              /\ covError \notin {"FileNotFoundError", "ValueError"}
        /\ Cardinality(refs) = 0 =>
              /\ covError = "FileNotFoundError"
              /\ referenceFile = NoValue
              /\ stagesRun = {}
              /\ covPc = "failed"
        /\ Cardinality(refs) > 1 =>
              /\ covError = "ValueError"
              /\ referenceFile = NoValue
              /\ stagesRun = {}
              /\ covPc = "failed"

C7_Witness ==
    /\ covPc = "failed"
    /\ covError = "ValueError"
    /\ Cardinality(ReferenceSequences(refDir)) = 2
    /\ Cardinality(refDir) > 2

\* C10: a tool that exits non-zero ends its branch: the sorter does not run after
\* a failed aligner, nor the depth tool after a failed sorter, nor the reducer
\* after a failed depth tool.
C10_ToolFailureIsFatal ==
    /\ toolExit["minimap2"] = "nonzero" => "sort" \notin stagesRun
    /\ toolExit["sort"] = "nonzero" => "depth" \notin stagesRun
    /\ toolExit["depth"] = "nonzero" => "plot" \notin stagesRun

\* ---------------------------------------------- properties, nanoporemet.py

SampleDirs == { d \in EntryNames : entries[d].kind = "dir" }

RECURSIVE TotalRows(_)
TotalRows(dfs) == IF dfs = <<>> THEN 0 ELSE Len(Head(dfs)) + TotalRows(Tail(dfs))

\* The output table has two rows for each of the M rows read
C1_RowCountDoubled ==
    metPc = "done" => Len(Content(outputFile).rows) = 2 * TotalRows(kreport_dfs)

\* Row M+i of the output is row i with the label "all", the other fields alike
C1_PooledDuplicates ==
    metPc = "done" =>
        LET out == Content(outputFile).rows
            M == TotalRows(kreport_dfs)
        IN  \A i \in 1..M :
               /\ i + M \in DOMAIN out
               /\ out[i + M][1] = "all"
               /\ Tail(out[i + M]) = Tail(out[i])

\* The first M rows carry names of sample directories, the rest "all"
C1_LabelsAreDirectoryNames ==
    metPc = "done" =>
        LET out == Content(outputFile).rows
            M == TotalRows(kreport_dfs)
        IN  \A i \in DOMAIN out :
               IF i <= M THEN out[i][1] \in SampleDirs ELSE out[i][1] = "all"

\* C1: the output table of main() has exactly 2M rows for M rows of per-sample
\* reports, holds every row once under its sample label and once under "all",
\* and holds no label but the sample directory names and "all".
C1_AggregationDoubles ==
    /\ C1_RowCountDoubled
    /\ C1_PooledDuplicates
    /\ C1_LabelsAreDirectoryNames

\* C5: a sample directory without reads adds no rows and does not abort the
\* run: main() is aborted only by a directory that holds reads, and a sample
\* directory without reads adds no table.
C5_SkipDoesNotAbort ==
    /\ metPc = "aborted" =>
          /\ metError[2] \in SampleDirs
          /\ entries[metError[2]].frags # <<>>
    /\ Len(kreport_dfs) <= Cardinality({ d \in SampleDirs : entries[d].frags # <<>> })

\* C6: a call of generate_sequencing_summary_pdf that finds neither document
\* nor table returns "not ready" and creates no document; a call that finds
\* the table and no document generates the document from it.
C6_NotReadyIsRetryable ==
    /\ [](pdfResult = "notready" => summaryPdf = NoFile)
    /\ [][ (metPc = "start" /\ metPc' # "start" /\ summaryPdf = NoFile) =>
              IF summaryFiles = {}
              THEN /\ pdfResult' = "notready"
                   /\ summaryPdf' = NoFile
                   /\ metPc' = "summary"
              ELSE /\ pdfResult' = "generated"
                   /\ summaryPdf' # NoFile
                   /\ Content(summaryPdf') \in summaryFiles ]_vars

\* The document is generated by a run that follows a run that found no table
C6_Witness ==
    /\ metRuns >= 2
    /\ metPc = "summary"
    /\ pdfResult = "generated"
    /\ summaryPdf # NoFile

\* The runner is inside sample directory d: between writing concatenated.fastq
\* and leaving run_kraken
InsideSample(d) == metPc \in {"kraken2", "tag"} /\ todo # <<>> /\ Head(todo) = d

\* C8: once the runner has left a sample directory with reads, every row of its
\* report is the directory name followed by the classifier's columns, the
\* name once.
C8_LabelPrependedOnce ==
    \A d \in SampleDirs :
        (~InsideSample(d) /\ entries[d].frags # <<>> /\ entries[d].report # NoFile) =>
            \A i \in DOMAIN Content(entries[d].report) :
                LET row == Content(entries[d].report)[i] IN
                /\ row[1] = d
                /\ Tail(row) \in NativeRows

\* C9: when the runner is not inside a sample directory, the directory holds
\* no intermediate concatenated.fastq.
C9_IntermediateRemoved ==
    \A d \in SampleDirs : ~InsideSample(d) => entries[d].concatenated = NoFile

====
